---- MODULE Spec2Model ----
(***************************************************************************)
(* Model of stat/hazard_models.py: the six code cells In[1]..In[6] of the  *)
(* "Hazard models" notebook, executed statement by statement in one shared *)
(* kernel namespace.  Real numbers are fixed-point integers with six       *)
(* decimals (the value v stands for v / SC).                               *)
(***************************************************************************)
EXTENDS Integers, Sequences, FiniteSets, TLC

(***************************************************************************)
(* Fixed-point arithmetic                                                  *)
(***************************************************************************)
K == 10^3
SC == K * K

Abs(a) == IF a < 0 THEN -a ELSE a
Sgn(a) == IF a < 0 THEN -1 ELSE 1

\* the array with the elements f[1], f[2], ..
Array(f) == f \o <<>>

\* product of two non-negative fixed-point numbers, split so that no
\* intermediate value leaves 32 bits
MulAbs(a, b) ==
    LET ah == a \div K
        al == a % K
        bh == b \div K
        bl == b % K
    IN  ah * bh + ((ah * bl + al * bh + ((al * bl) \div K)) \div K)

MulFix(a, b) == Sgn(a) * Sgn(b) * MulAbs(Abs(a), Abs(b))

\* d further decimal digits of r / b, for 0 <= r < b
RECURSIVE FracDigits(_, _, _)
FracDigits(r, b, d) ==
    IF d = 0 THEN 0
    ELSE ((r * 10) \div b) * 10^(d - 1) + FracDigits((r * 10) % b, b, d - 1)

DivAbs(a, b) == (a \div b) * SC + FracDigits(a % b, b, 6)

DivFix(a, b) == Sgn(a) * Sgn(b) * DivAbs(Abs(a), Abs(b))

(***************************************************************************)
(* numpy: exp, linspace, logspace, ones                                    *)
(***************************************************************************)
ExpTerms == 40

\* sum of the terms x^k / k! for k >= n, given the term for k = n
RECURSIVE ExpSeries(_, _, _)
ExpSeries(x, term, n) ==
    IF term = 0 \/ n > ExpTerms THEN 0
    ELSE term + ExpSeries(x, MulFix(term, x) \div (n + 1), n + 1)

ExpPos(x) == ExpSeries(x, SC, 0)

Exp(x) == IF x >= 0 THEN ExpPos(x) ELSE DivFix(SC, ExpPos(-x))

\* i * d / n, exact floor, for 0 <= i <= n
Scale(i, d, n) == i * (d \div n) + ((i * (d % n)) \div n)

\* np.linspace(..., endpoint=False): the stop value is left out
Linspace_NoEndpoint(start, stop, num) ==
    Array([i \in 1..num |-> start + Scale(i - 1, stop - start, num)])

Linspace(start, stop, num) ==
    Array([i \in 1..num |-> IF i = num THEN stop
                            ELSE start + Scale(i - 1, stop - start, num - 1)])

LN10 == 2302585

Logspace(start, stop, num) ==
    LET e == Linspace(start, stop, num)
    IN  Array([i \in 1..num |-> Exp(MulFix(LN10, e[i]))])

Ones(n) == Array([i \in 1..n |-> SC])

(***************************************************************************)
(* scipy.stats.norm: cdf and ppf                                           *)
(***************************************************************************)
InvSqrt2Pi == 398942
CdfTerms == 60

\* sum of the terms z^(2k+1) / (2k+1)!! for k >= n, given the term for k = n
RECURSIVE CdfSeries(_, _, _)
CdfSeries(zz, term, n) ==
    IF term = 0 \/ n > CdfTerms THEN 0
    ELSE term + CdfSeries(zz, MulFix(term, zz) \div (2 * n + 3), n + 1)

\* standard normal distribution function
Phi(z) ==
    LET a == Abs(z)
        zz == MulFix(a, a)
        half == DivFix(MulFix(InvSqrt2Pi, CdfSeries(zz, a, 0)), ExpPos(zz \div 2))
    IN  IF z >= 0 THEN SC \div 2 + half ELSE SC \div 2 - half

NormCdf(x, loc, scale) == Phi(DivFix(x - loc, scale))

\* least argument in (lo, hi] at which the distribution function reaches q
RECURSIVE Bisect(_, _, _, _, _)
Bisect(q, loc, scale, lo, hi) ==
    IF hi - lo <= 1 THEN hi
    ELSE LET mid == lo + ((hi - lo) \div 2)
         IN  IF NormCdf(mid, loc, scale) >= q
             THEN Bisect(q, loc, scale, lo, mid)
             ELSE Bisect(q, loc, scale, mid, hi)

NormPpf(q, loc, scale) ==
    Bisect(q, loc, scale, loc - 3 * scale - (scale \div 2), loc + 3 * scale + (scale \div 2))

(***************************************************************************)
(* numpy.random: the global generator                                      *)
(***************************************************************************)
RngMod == 2^16 + 1
RngMul == 75
RngInc == 74

\* a seed call that leaves the generator as it was
Seed_Ignored(g, k) == g

\* np.random.seed(k): the generator state depends on k only
Seed(g, k) == k % RngMod

\* the generator state after n draws
RngAfter(g, n) == (g + n * RngInc) % RngMod

\* the sample a generator state yields, in (-3.3, 3.3)
Sample(g) == (((RngMul * g) % RngMod) - (RngMod \div 2)) * 100

\* np.random.randn(n)
Randn(g, n) == Array([i \in 1..n |-> Sample(RngAfter(g, i))])

(***************************************************************************)
(* Values of the namespace                                                 *)
(***************************************************************************)
V(kind, shape, data) == [kind |-> kind, shape |-> shape, data |-> data]

Unbound == V("unbound", <<>>, <<>>)

Names == {"norm", "plt", "np", "rv", "t", "fig", "ax", "m0", "load_waltons",
          "N", "data", "cmap", "rcParams", "cycler", "Line2D",
          "custom_lines", "lines"}

Libs == {"scipy", "matplotlib", "numpy", "lifelines"}

Cells == 1..6

\* one subplot of a figure
NoAxes == [xlabel |-> "", ylabel |-> "", x |-> <<>>, y |-> <<>>, legend |-> <<>>]

\* the output area of a cell
NoOutput == [axes |-> <<>>, display |-> ""]

(***************************************************************************)
(* The statements of the cells                                             *)
(***************************************************************************)
LOC == 4000000
SCALE == 1500000
Q99 == 990000
M0 == 100000
SEED == 19680801
NROWS == 10

St(line, op, reads, writes, lib, arg, label, effect) ==
    [line |-> line, op |-> op, reads |-> reads, writes |-> writes, lib |-> lib,
     arg |-> arg, label |-> label, effect |-> effect]

In1 ==
    << St(25, "import", <<>>, <<"norm">>, "scipy", <<>>, "scipy.stats.norm", {"import"}),
       St(26, "import", <<>>, <<"plt">>, "matplotlib", <<>>, "matplotlib.pyplot", {"import"}),
       St(27, "import", <<>>, <<"np">>, "numpy", <<>>, "numpy", {"import"}),
       St(29, "norm", <<"norm">>, <<"rv">>, "", <<LOC, SCALE>>, "", {"distribution"}),
       St(30, "linspace_ppf", <<"np", "norm">>, <<"t">>, "", <<0, Q99, LOC, SCALE, 100>>, "", {"grid"}),
       St(31, "subplots", <<"plt">>, <<"fig", "ax">>, "", <<1, 1>>, "", {"figure"}),
       St(32, "set_xlabel", <<"ax">>, <<>>, "", <<1>>, "Time", {"label"}),
       St(33, "set_ylabel", <<"ax">>, <<>>, "", <<1>>, "Probability to die", {"label"}),
       St(34, "plot_cdf", <<"ax", "t", "rv">>, <<>>, "", <<1>>, "", {"cdf", "plot"}) >>

\* In[2] without line 47: it plots over whatever grid t holds
In2_StaleGrid ==
    << St(46, "norm", <<"norm">>, <<"rv">>, "", <<LOC, SCALE>>, "", {"distribution"}),
       St(48, "subplots", <<"plt">>, <<"fig", "ax">>, "", <<1, 1>>, "", {"figure"}),
       St(49, "set_xlabel", <<"ax">>, <<>>, "", <<1>>, "Time", {"label"}),
       St(50, "set_ylabel", <<"ax">>, <<>>, "", <<1>>, "Probability to survive", {"label"}),
       St(51, "plot_sf", <<"ax", "t", "rv">>, <<>>, "", <<1>>, "", {"cdf", "plot"}) >>

In2 ==
    << St(46, "norm", <<"norm">>, <<"rv">>, "", <<LOC, SCALE>>, "", {"distribution"}),
       St(47, "linspace_ppf", <<"np", "norm">>, <<"t">>, "", <<0, Q99, LOC, SCALE, 100>>, "", {"grid"}),
       St(48, "subplots", <<"plt">>, <<"fig", "ax">>, "", <<1, 1>>, "", {"figure"}),
       St(49, "set_xlabel", <<"ax">>, <<>>, "", <<1>>, "Time", {"label"}),
       St(50, "set_ylabel", <<"ax">>, <<>>, "", <<1>>, "Probability to survive", {"label"}),
       St(51, "plot_sf", <<"ax", "t", "rv">>, <<>>, "", <<1>>, "", {"cdf", "plot"}) >>

In3 ==
    << St(127, "linspace", <<"np">>, <<"t">>, "", <<0, 20 * SC, 200>>, "", {"grid"}),
       St(128, "subplots", <<"plt">>, <<"fig", "ax">>, "", <<1, 2>>, "", {"figure"}),
       St(130, "float", <<>>, <<"m0">>, "", <<M0>>, "", {"constant"}),
       St(132, "plot_hazard", <<"ax", "t", "np", "m0">>, <<>>, "", <<1>>, "", {"plot"}),
       St(133, "set_xlabel", <<"ax">>, <<>>, "", <<1>>, "Time", {"label"}),
       St(134, "set_ylabel", <<"ax">>, <<>>, "", <<1>>, "Mortality risk", {"label"}),
       St(136, "plot_exp", <<"ax", "t", "np", "m0">>, <<>>, "", <<2>>, "", {"plot"}),
       St(137, "set_xlabel", <<"ax">>, <<>>, "", <<2>>, "Time", {"label"}),
       St(138, "set_ylabel", <<"ax">>, <<>>, "", <<2>>, "Probability of survival", {"label"}) >>

\* In[4] and In[5] merged into one cell
In4_LoadsToo ==
    << St(165, "import", <<>>, <<"load_waltons">>, "lifelines", <<>>,
          "lifelines.datasets.load_waltons", {"import"}),
       St(171, "display", <<"load_waltons">>, <<>>, "", <<>>, "waltons", {"load", "display"}) >>

In4 ==
    << St(165, "import", <<>>, <<"load_waltons">>, "lifelines", <<>>,
          "lifelines.datasets.load_waltons", {"import"}) >>

In5 ==
    << St(171, "display", <<"load_waltons">>, <<>>, "", <<>>, "waltons", {"load", "display"}) >>

In6 ==
    << St(180, "seed", <<"np">>, <<>>, "", <<SEED>>, "", {"seed"}),
       St(182, "int", <<>>, <<"N">>, "", <<NROWS>>, "", {"constant"}),
       St(183, "randdata", <<"N", "np">>, <<"data">>, "", <<0, SC, 100>>, "", {"random"}),
       St(184, "transpose", <<"np", "data">>, <<"data">>, "", <<>>, "", {"reshape"}),
       St(185, "cmap", <<"plt">>, <<"cmap">>, "", <<>>, "coolwarm", {"constant"}),
       St(186, "prop_cycle", <<"cycler", "cmap", "np", "N", "rcParams">>, <<>>, "", <<0, SC>>, "", {"style"}),
       St(189, "import", <<>>, <<"Line2D">>, "matplotlib", <<>>, "matplotlib.lines.Line2D", {"import"}),
       St(190, "legend_lines", <<"Line2D", "cmap">>, <<"custom_lines">>, "", <<0, SC \div 2, SC>>, "", {"constant"}),
       St(194, "subplots", <<"plt">>, <<"fig", "ax">>, "", <<1, 1>>, "", {"figure"}),
       St(195, "plot_data", <<"ax", "data">>, <<"lines">>, "", <<1>>, "", {"plot"}),
       St(196, "legend", <<"ax", "custom_lines">>, <<>>, "", <<1>>, "", {"label"}) >>

Cell(c) ==
    CASE c = 1 -> In1 [] c = 2 -> In2 [] c = 3 -> In3
      [] c = 4 -> In4 [] c = 5 -> In5 [] c = 6 -> In6

(***************************************************************************)
(* What the statements compute                                             *)
(***************************************************************************)
\* rv.cdf(t)
CdfCurve(rv, t) ==
    Array([i \in 1..Len(t.data) |-> NormCdf(t.data[i], rv.data[1], rv.data[2])])

\* rv.cdf(t) plotted where 1 - rv.cdf(t) is meant
SfCurve_Cdf(rv, t) == CdfCurve(rv, t)

\* 1 - rv.cdf(t)
SfCurve(rv, t) ==
    LET F == CdfCurve(rv, t)
    IN  Array([i \in 1..Len(t.data) |-> SC - F[i]])

\* np.ones(len(t)), the factor m0 forgotten
HazardCurve_Ones(t, m0) == Ones(Len(t.data))

\* np.ones(len(t)) * m0
HazardCurve(t, m0) ==
    LET ones == Ones(Len(t.data))
    IN  Array([i \in 1..Len(t.data) |-> MulFix(ones[i], m0.data[1])])

\* np.exp(-m0*t)
ExpCurve(t, m0) ==
    Array([i \in 1..Len(t.data) |-> Exp(MulFix(-m0.data[1], t.data[i]))])

\* [np.logspace(0, 1, 100) + np.random.randn(100) + ii for ii in range(N)],
\* rows ii .. n-1, flattened
RECURSIVE RandRows(_, _, _, _)
RandRows(base, g, ii, n) ==
    IF ii >= n THEN <<>>
    ELSE LET draw == Randn(g, Len(base))
         IN  Array([j \in 1..Len(base) |-> base[j] + draw[j] + ii * SC])
             \o RandRows(base, RngAfter(g, Len(base)), ii + 1, n)

RECURSIVE RngAfterRows(_, _, _)
RngAfterRows(g, len, n) ==
    IF n = 0 THEN g ELSE RngAfterRows(RngAfter(g, len), len, n - 1)

\* np.array(data).T for a flattened list of r rows of c values
Transpose(flat, r, c) ==
    Array([k \in 1..(r * c) |-> flat[((k - 1) % r) * c + ((k - 1) \div r) + 1]])

\* the figure an Axes object draws into, changed at subplot i by f
Draw(outs, ax, i, field, val) ==
    LET owner == ax.data[1]
    IN  IF i \in DOMAIN outs[owner].axes
        THEN [outs EXCEPT ![owner].axes[i][field] = val]
        ELSE outs

\* a binding made in a scope of its own: the other names are lost
Bind_Fresh(env, name, val) ==
    [n \in DOMAIN env |-> IF n = name THEN val ELSE Unbound]

Bind(env, name, val) == [env EXCEPT ![name] = val]

\* the namespace after statement s of cell c
NsAfter(s, c, st) ==
    LET env == st.ns
    IN  CASE s.op = "import" -> Bind(env, s.writes[1], V(s.label, <<>>, <<>>))
          [] s.op = "norm" -> Bind(env, "rv", V("rv_frozen", <<>>, s.arg))
          [] s.op = "linspace_ppf" ->
               Bind(env, "t", V("ndarray", <<s.arg[5]>>,
                    Linspace(s.arg[1], NormPpf(s.arg[2], s.arg[3], s.arg[4]), s.arg[5])))
          [] s.op = "linspace" ->
               Bind(env, "t", V("ndarray", <<s.arg[3]>>, Linspace(s.arg[1], s.arg[2], s.arg[3])))
          [] s.op = "subplots" ->
               Bind(Bind(env, "fig", V("Figure", s.arg, <<c>>)), "ax", V("Axes", s.arg, <<c>>))
          [] s.op = "float" -> Bind(env, s.writes[1], V("float", <<>>, s.arg))
          [] s.op = "int" -> Bind(env, s.writes[1], V("int", <<>>, s.arg))
          [] s.op = "randdata" ->
               Bind(env, "data", V("list", <<env["N"].data[1], s.arg[3]>>,
                    RandRows(Logspace(s.arg[1], s.arg[2], s.arg[3]), st.rng, 0, env["N"].data[1])))
          [] s.op = "transpose" ->
               Bind(env, "data", V("ndarray", <<env["data"].shape[2], env["data"].shape[1]>>,
                    Transpose(env["data"].data, env["data"].shape[2], env["data"].shape[1])))
          [] s.op = "cmap" -> Bind(env, "cmap", V(s.label, <<>>, <<>>))
          [] s.op = "legend_lines" -> Bind(env, "custom_lines", V("list", <<Len(s.arg)>>, s.arg))
          [] s.op = "plot_data" -> Bind(env, "lines", V("list", <<env["data"].shape[2]>>, <<>>))
          [] OTHER -> env

\* the cell outputs after statement s of cell c
OutAfter(s, c, st) ==
    LET env == st.ns
        outs == st.out
    IN  CASE s.op = "subplots" ->
               [outs EXCEPT ![c].axes = [i \in 1..(s.arg[1] * s.arg[2]) |-> NoAxes]]
          [] s.op = "set_xlabel" -> Draw(outs, env["ax"], s.arg[1], "xlabel", s.label)
          [] s.op = "set_ylabel" -> Draw(outs, env["ax"], s.arg[1], "ylabel", s.label)
          [] s.op = "plot_cdf" ->
               Draw(Draw(outs, env["ax"], s.arg[1], "x", env["t"].data),
                    env["ax"], s.arg[1], "y", CdfCurve(env["rv"], env["t"]))
          [] s.op = "plot_sf" ->
               Draw(Draw(outs, env["ax"], s.arg[1], "x", env["t"].data),
                    env["ax"], s.arg[1], "y", SfCurve(env["rv"], env["t"]))
          [] s.op = "plot_hazard" ->
               Draw(Draw(outs, env["ax"], s.arg[1], "x", env["t"].data),
                    env["ax"], s.arg[1], "y", HazardCurve(env["t"], env["m0"]))
          [] s.op = "plot_exp" ->
               Draw(Draw(outs, env["ax"], s.arg[1], "x", env["t"].data),
                    env["ax"], s.arg[1], "y", ExpCurve(env["t"], env["m0"]))
          [] s.op = "plot_data" -> Draw(outs, env["ax"], s.arg[1], "y", env["data"].data)
          [] s.op = "legend" -> Draw(outs, env["ax"], s.arg[1], "legend", env["custom_lines"].data)
          [] s.op = "display" -> [outs EXCEPT ![c].display = s.label]
          [] OTHER -> outs

\* the global generator after statement s
GenAfter(s, st) ==
    CASE s.op = "seed" -> Seed(st.rng, s.arg[1])
      [] s.op = "randdata" -> RngAfterRows(st.rng, s.arg[3], st.ns["N"].data[1])
      [] OTHER -> st.rng

\* rcParams['axes.prop_cycle'] after statement s
StyleAfter(s, st) ==
    IF s.op = "prop_cycle"
    THEN Linspace(s.arg[1], s.arg[2], st.ns["N"].data[1])
    ELSE st.style

ApplyStmt(s, c, st) ==
    [ns |-> NsAfter(s, c, st), out |-> OutAfter(s, c, st),
     rng |-> GenAfter(s, st), style |-> StyleAfter(s, st)]

\* the first name statement s reads that is not bound, "" when all are
RECURSIVE FirstUnbound(_, _, _)
FirstUnbound(reads, env, i) ==
    IF i > Len(reads) THEN ""
    ELSE IF env[reads[i]] = Unbound THEN reads[i]
    ELSE FirstUnbound(reads, env, i + 1)

Range(q) == {q[i] : i \in DOMAIN q}

(***************************************************************************)
(* The kernel                                                              *)
(***************************************************************************)
MaxEntry == 2

VARIABLES
    ns,         \* the shared namespace: name -> value
    binder,     \* name -> the cell that bound it last, 0 when unbound
    out,        \* cell -> its output area
    rng,        \* state of the global numpy generator
    style,      \* rcParams['axes.prop_cycle'], <<>> for the default
    installed,  \* the libraries that can be imported
    cell,       \* the cell run last, 0 before the first
    idx,        \* the statement of that cell to execute next
    status,     \* "idle", "running", "done" or "error"
    err,        \* the exception that ended the cell
    effects,    \* what the statements of this run of the cell have done
    crossRead,  \* names the last statement read that another cell bound
    entry,      \* the generator state when the cell was started
    docPos      \* k when the cells run so far are In[1]..In[k] once each in order, -1 otherwise

vars == <<ns, binder, out, rng, style, installed, cell, idx, status, err,
          effects, crossRead, entry, docPos>>

NoError == [type |-> "", name |-> ""]

Init ==
    /\ ns = [n \in Names |-> Unbound]
    /\ binder = [n \in Names |-> 0]
    /\ out = [c \in Cells |-> NoOutput]
    /\ rng \in 0..MaxEntry
    /\ style = <<>>
    /\ installed \in SUBSET Libs
    /\ cell = 0
    /\ idx = 0
    /\ status = "idle"
    /\ err = NoError
    /\ effects = {}
    /\ crossRead = {}
    /\ entry = rng
    /\ docPos = 0

\* the user (or the book build) runs cell c; its previous output is cleared
StartCell(c) ==
    /\ status # "running"
    /\ cell' = c
    /\ idx' = 1
    /\ status' = "running"
    /\ err' = NoError
    /\ effects' = {}
    /\ crossRead' = {}
    /\ entry' = rng
    /\ out' = [out EXCEPT ![c] = NoOutput]
    /\ docPos' = IF docPos = c - 1 THEN c ELSE -1
    /\ UNCHANGED <<ns, binder, rng, style, installed>>

Stmt == Cell(cell)[idx]

CanImport(s) == s.op = "import" => s.lib \in installed

\* the part of the kernel state that statements compute on
Kernel == [ns |-> ns, out |-> out, rng |-> rng, style |-> style]

\* the next statement of the running cell executes
ExecOK ==
    /\ status = "running"
    /\ FirstUnbound(Stmt.reads, ns, 1) = ""
    /\ CanImport(Stmt)
    /\ ns' = NsAfter(Stmt, cell, Kernel)
    /\ out' = OutAfter(Stmt, cell, Kernel)
    /\ rng' = GenAfter(Stmt, Kernel)
    /\ style' = StyleAfter(Stmt, Kernel)
    /\ binder' = [n \in Names |-> IF n \in Range(Stmt.writes) THEN cell ELSE binder[n]]
    /\ crossRead' = {n \in Range(Stmt.reads) : binder[n] # cell}
    /\ effects' = effects \cup Stmt.effect
    /\ idx' = idx + 1
    /\ status' = IF idx = Len(Cell(cell)) THEN "done" ELSE "running"
    /\ UNCHANGED <<installed, cell, err, entry, docPos>>

\* the failed lookup is swallowed and the cell goes on with the next statement
ExecNameError_Skip ==
    /\ status = "running"
    /\ FirstUnbound(Stmt.reads, ns, 1) # ""
    /\ idx' = idx + 1
    /\ status' = IF idx = Len(Cell(cell)) THEN "done" ELSE "running"
    /\ UNCHANGED <<ns, binder, out, rng, style, installed, cell, err, effects,
                   crossRead, entry, docPos>>

\* the next statement reads a name that is not bound: the cell ends
ExecNameError ==
    /\ status = "running"
    /\ FirstUnbound(Stmt.reads, ns, 1) # ""
    /\ status' = "error"
    /\ err' = [type |-> "NameError", name |-> FirstUnbound(Stmt.reads, ns, 1)]
    /\ UNCHANGED <<ns, binder, out, rng, style, installed, cell, idx, effects,
                   crossRead, entry, docPos>>

\* the next statement imports a library that is not installed: the cell ends
ExecImportError ==
    /\ status = "running"
    /\ FirstUnbound(Stmt.reads, ns, 1) = ""
    /\ ~CanImport(Stmt)
    /\ status' = "error"
    /\ err' = [type |-> "ModuleNotFoundError", name |-> Stmt.lib]
    /\ UNCHANGED <<ns, binder, out, rng, style, installed, cell, idx, effects,
                   crossRead, entry, docPos>>

Next ==
    \/ \E c \in Cells : StartCell(c)
    \/ ExecOK
    \/ ExecNameError
    \/ ExecImportError

Spec == Init /\ [][Next]_vars

(***************************************************************************)
(* Derived notions                                                         *)
(***************************************************************************)
\* the names bound by import statements of In[1] and In[4]
ImportNames == {"norm", "plt", "np", "load_waltons"}

\* the names some statement of some cell binds
AllWrites ==
    UNION {UNION {Range(Cell(c)[k].writes) : k \in 1..Len(Cell(c))} : c \in Cells}

\* the number of statements of the last cell that have executed
Executed == IF cell = 0 THEN 0 ELSE idx - 1

\* a fresh kernel in which only the imports of In[1] and In[4] have been done
AloneStart ==
    [ns |-> [n \in Names |->
                CASE n = "norm" -> V("scipy.stats.norm", <<>>, <<>>)
                  [] n = "plt" -> V("matplotlib.pyplot", <<>>, <<>>)
                  [] n = "np" -> V("numpy", <<>>, <<>>)
                  [] n = "load_waltons" -> V("lifelines.datasets.load_waltons", <<>>, <<>>)
                  [] OTHER -> Unbound],
     out |-> [c \in Cells |-> NoOutput],
     rng |-> 0,
     style |-> <<>>]

\* the kernel states after 0, 1, .. k statements of cell c executed there
RECURSIVE AloneStates(_, _)
AloneStates(c, k) ==
    IF k = 0 THEN <<AloneStart>>
    ELSE LET prev == AloneStates(c, k - 1)
         IN  Append(prev, ApplyStmt(Cell(c)[k], c, prev[k]))

AloneTab ==
    << AloneStates(1, Len(In1)), AloneStates(2, Len(In2)), AloneStates(3, Len(In3)),
       AloneStates(4, Len(In4)), AloneStates(5, Len(In5)), AloneStates(6, Len(In6)) >>

\* the first k statements of cell c executed in that kernel
AloneRun(c, k) == AloneTab[c][k + 1]

\* the grid end of In[1] and In[2]
Ppf99 == NormPpf(Q99, LOC, SCALE)

\* the subplots In[1], In[2] and In[3] have finished drawing
Plotted1 == out[1].axes # <<>> /\ out[1].axes[1].y # <<>>
Plotted2 == out[2].axes # <<>> /\ out[2].axes[1].y # <<>>
Plotted3 == Len(out[3].axes) = 2 /\ out[3].axes[1].y # <<>> /\ out[3].axes[2].y # <<>>

NonIncreasing(y) == \A i \in 1..(Len(y) - 1) : y[i + 1] <= y[i]
InUnit(y) == \A i \in 1..Len(y) : 0 <= y[i] /\ y[i] <= SC

(***************************************************************************)
(* Properties                                                              *)
(***************************************************************************)
OdeTol == 2

\* C1: running In[1]..In[6] once each in document order in a fresh
\* namespace, with every library installed, no cell ends in an error.
C1_RunsToCompletion ==
    (installed = Libs /\ docPos >= 0) => status # "error"

\* C2: the cells are independent: no statement reads a name that a
\* different cell bound, and no cell fails for want of a name that another
\* cell binds.
C2_Independent ==
    /\ crossRead = {}
    /\ err.type = "NameError" => err.name \notin AllWrites

\* C2 (amended): the only names a cell reads that a different cell bound are
\* the imports norm, plt, np and load_waltons; a cell fails on a name lookup
\* only for one of those imports or for a name no cell binds; and whatever
\* cells ran before, the names the cell has bound and the output it has
\* drawn are those of the same statements run in a kernel holding only the
\* imports.
C2_ImportsOnly ==
    /\ crossRead \subseteq ImportNames
    /\ err.type = "NameError" => err.name \in ImportNames \cup (Names \ AllWrites)
    /\ cell # 0 =>
         LET alone == AloneRun(cell, Executed)
         IN  /\ out[cell] = alone.out[cell]
             /\ \A j \in 1..Executed :
                  \A n \in Range(Cell(cell)[j].writes) : ns[n] = alone.ns[n]

\* In[2] has completed after In[3] and In[6] left their variables behind
C2_Witness ==
    /\ cell = 2 /\ status = "done"
    /\ binder["m0"] = 3 /\ binder["data"] = 6
    /\ crossRead = {}

\* C3: no step changes cross-cell state other than the plotting style:
\* the namespace and the global generator stay as they were.
C3_OnlyStyle == [][ns' = ns /\ rng' = rng]_vars

\* C3 (amended): a step changes only the names its statement binds; only
\* In[6] changes the global generator; only In[6] can change the plotting
\* style.
C3_Frame ==
    [][/\ \A n \in Names :
            ns'[n] # ns[n] => status = "running" /\ n \in Range(Stmt.writes)
       /\ rng' # rng => status = "running" /\ cell = 6
       /\ style' # style => status = "running" /\ cell = 6]_vars

\* In[6] has reseeded the generator and bound data; t of In[3] is untouched
C3_Witness ==
    /\ cell = 6 /\ Executed = 5
    /\ binder["data"] = 6 /\ binder["t"] = 3
    /\ ns["t"].shape = <<200>>
    /\ rng # entry

\* C4: a statement that raises ends the cell: the failing step changes
\* nothing but the status and the recorded exception, what the earlier
\* statements wrote stays, and the only step out of the error state starts
\* a cell from its first statement.
C4_NoRecovery ==
    [][/\ (status = "running" /\ (FirstUnbound(Stmt.reads, ns, 1) # "" \/ ~CanImport(Stmt))) =>
            status' = "error"
       /\ (status = "running" /\ status' = "error") =>
            /\ err'.type \in {"NameError", "ModuleNotFoundError"}
            /\ UNCHANGED <<ns, binder, out, rng, style, cell, idx, effects>>
       /\ status = "error" =>
            /\ status' = "running" /\ idx' = 1
            /\ UNCHANGED <<ns, binder, rng, style>>]_vars

\* In[6] stopped at its sixth statement; data of the third is still bound
C4_Witness ==
    /\ status = "error" /\ cell = 6 /\ idx = 6
    /\ err = [type |-> "NameError", name |-> "cycler"]
    /\ binder["data"] = 6 /\ ns["data"].kind = "ndarray"

\* C5: In[3] plots, over 200 points on [0, 20], the hazard m0 = 0.1 at
\* every point and a survival curve S with S(0) = 1 that solves
\* m = -S'/S: over each grid interval the drop of S lies between
\* m*S*dt at its right end and m*S*dt at its left end.
C5_ConstantRisk ==
    Plotted3 =>
      LET x == out[3].axes[1].x
          m == out[3].axes[1].y
          S == out[3].axes[2].y
      IN  /\ Len(x) = 200 /\ Len(m) = 200 /\ Len(S) = 200
          /\ out[3].axes[2].x = x
          /\ x[1] = 0 /\ x[200] = 20 * SC
          /\ \A i \in 1..200 : m[i] = M0
          /\ S[1] = SC
          /\ \A i \in 1..199 :
               LET dt == x[i + 1] - x[i]
                   drop == S[i] - S[i + 1]
               IN  /\ MulFix(MulFix(m[i + 1], S[i + 1]), dt) - OdeTol <= drop
                   /\ drop <= MulFix(MulFix(m[i], S[i]), dt) + OdeTol

C5_Witness == Plotted3 /\ cell = 3 /\ status = "done"

\* C6: In[1] and In[2] use the same distribution (loc 4, scale 1.5) and the
\* same 100-point grid from 0 to the 0.99 quantile, and at every grid point
\* the two plotted values sum to 1.
C6_Complement ==
    /\ binder["rv"] \in {1, 2} => ns["rv"].data = <<LOC, SCALE>>
    /\ (Plotted1 /\ Plotted2) =>
         LET F == out[1].axes[1]
             S == out[2].axes[1]
         IN  /\ F.x = S.x
             /\ Len(F.x) = 100 /\ Len(F.y) = 100 /\ Len(S.y) = 100
             /\ F.x[1] = 0 /\ F.x[100] = Ppf99
             /\ \A i \in 1..100 : F.y[i] + S.y[i] = SC

C6_Witness == Plotted1 /\ Plotted2 /\ cell = 2 /\ status = "done"

\* C7: the survival time is non-negative: at the first grid point t = 0
\* In[1] plots F(0) = 0 and In[2] plots S(0) = 1.
C7_NonNegative ==
    /\ Plotted1 => out[1].axes[1].x[1] = 0 /\ out[1].axes[1].y[1] = 0
    /\ Plotted2 => out[2].axes[1].x[1] = 0 /\ out[2].axes[1].y[1] = SC

\* C8: whatever ran before and whatever the generator state on entry, the
\* data array In[6] builds is the same 100 x 10 array.
C8_Reproducible ==
    (binder["data"] = 6 /\ Executed >= 4) =>
        /\ ns["data"].shape = <<100, NROWS>>
        /\ Len(ns["data"].data) = 100 * NROWS
        /\ ns["data"] = AloneRun(6, 4).ns["data"]

\* In[6] has built data in a run entered with the generator state its
\* previous run left
C8_Witness ==
    /\ cell = 6 /\ Executed >= 4 /\ binder["data"] = 6
    /\ entry = RngAfter(Seed(0, SEED), 100 * NROWS)
    /\ entry # 0

\* C9: every cell evaluates a distribution function over a grid, plots a
\* curve, or loads and displays a dataset, and does nothing else: none
\* seeds or draws random numbers, sets the style, or only imports.
C9_ThreeKinds ==
    /\ effects \cap {"seed", "random", "style"} = {}
    /\ status = "done" => effects \cap {"cdf", "plot", "load", "display"} # {}

\* C9 (amended): In[1] and In[2] build a normal distribution, evaluate its
\* distribution function over a grid and plot it (In[1] after its imports);
\* In[3] plots closed-form curves over a grid; In[4] only imports; In[5]
\* loads and displays a dataset; In[6] seeds the global generator and draws
\* random numbers into an array before anything else.
C9_CellKinds ==
    /\ cell \in {1, 2} =>
         /\ effects \subseteq {"import", "distribution", "grid", "figure", "label", "cdf", "plot"}
         /\ status = "done" => {"distribution", "grid", "cdf", "plot"} \subseteq effects
         /\ "import" \in effects => cell = 1
    /\ cell = 3 =>
         /\ effects \subseteq {"grid", "figure", "constant", "label", "plot"}
         /\ status = "done" => {"grid", "plot"} \subseteq effects
    /\ cell = 4 => effects \subseteq {"import"} /\ (status = "done" => effects = {"import"})
    /\ cell = 5 => effects \subseteq {"load", "display"}
    /\ cell = 6 =>
         /\ effects \cap {"cdf", "distribution", "load", "display"} = {}
         /\ effects # {} => "seed" \in effects
         /\ Executed >= 3 => "random" \in effects

C9_Witness ==
    /\ cell = 6 /\ "random" \in effects
    /\ binder["load_waltons"] = 4 /\ out[5].display = "waltons"

\* C10: the survival curves of In[2] and In[3] lie in [0, 1] and never
\* increase along the grid; the In[2] curve ends at 1 - 0.99 and the In[3]
\* curve starts at 1.
C10_ValidSurvival ==
    /\ Plotted2 =>
         LET S == out[2].axes[1].y
         IN  InUnit(S) /\ NonIncreasing(S) /\ S[Len(S)] = SC - Q99
    /\ Plotted3 =>
         LET S == out[3].axes[2].y
         IN  InUnit(S) /\ NonIncreasing(S) /\ S[1] = SC

C10_Witness == Plotted2 /\ Plotted3 /\ cell = 3 /\ status = "done"

====
